---- MODULE Spec2Model ----
(***************************************************************************)
(* Model of the ATmega1284p train controller sketch: the loop() state      *)
(* machine, the check_* sensor queries, the schedule queries and the motor *)
(* output.  One loop() iteration is one step.  Everything the iteration    *)
(* reads from outside (the serial character, the sensor pins, the RTC, the *)
(* time that went by) is an input of the step.                             *)
(*                                                                         *)
(* motor_speed is a float that moves in steps of 0.25 and of 1; it is kept *)
(* here in quarter units (motor_speed = 4 * speed).                        *)
(*                                                                         *)
(* previousMillis and runMillis are time stamps that the sketch only ever  *)
(* uses in a difference "counter - stamp".  A stamp is kept as the counter *)
(* it was taken from (unit), the uptime in ms at which it was taken (base) *)
(* and the time in ms that went by since (age).                            *)
(***************************************************************************)
EXTENDS Integers, Sequences, FiniteSets, TLC

VARIABLES program_state, current_station, direction_left, motor_speed,
          prev_motor_speed, motor_left, motor_right, previousMillis,
          runMillis, in_recovery, station_wait_times, on_off_times,
          estop_dir,
          eeprom,        \* the stored magic number, wait times and schedule
          booted,        \* setup() has run
          saved,         \* the wait times and the schedule last put into
                         \* the EEPROM by the menu (<<>> before any), and
                         \* whether setup() has loaded the EEPROM since
          rtc,           \* the RTC reading <<hour, minute, second>>
          query,         \* the schedule query called last, "none" before any
          answer         \* what that query returned

\* what loop() works on
loopvars == <<program_state, current_station, direction_left, motor_speed,
              prev_motor_speed, motor_left, motor_right, previousMillis,
              runMillis, in_recovery, station_wait_times, on_off_times,
              estop_dir>>

\* the RTC and the answers of the schedule queries as state: SpecClock below
\* asks the queries at every instant; Spec and SpecLive hand the RTC reading
\* to each iteration as an input and leave these three alone
clockvars == <<rtc, query, answer>>

vars == <<loopvars, eeprom, booted, saved, clockvars>>

(***************************************************************************)
(* Program constants.                                                      *)
(***************************************************************************)
STATE_SLEEPING == 0
STATE_STARTUP == 1
STATE_WAITING == 2
STATE_ACCEL == 3
STATE_RUNNING == 4
STATE_DEACCEL == 5
STATE_SLOW == 6
STATE_STOPPED == 7

START_SPEED == 10
MIN_SPEED == 15
MAX_SPEED == 41
IDLE_SPEED == 8

ACCEL_TICK_TIME == 150000
DEACCEL_TICK_CENTER == 19000
DEACCEL_TICK_TERMINUS == 1
WAIT_PAUSE_TIMER == 5000
SLOW_MAX_TIMER == 15000
RUN_MAX_TIMER == 30000
NUM_STOPS == 3
EE_MAGIC_NUMBER == 48092

\* motor_speed + 0.25 is one quarter unit; a whole speed unit is QUARTERS of them
QUARTERS == 4
\* an unsigned long is 32 bits wide on the AVR: two halves of HALF_BITS bits
HALF_BITS == 16
\* setup() spends delay(250) + delay(2000) + delay(2000) before loop() starts
SETUP_DELAY == 4250

Half == 2 ^ HALF_BITS

(***************************************************************************)
(* Inputs of a loop iteration.                                             *)
(***************************************************************************)
\* at most this many sensor pins are pulled low at the same instant
MaxAsserted == 1

Pins == {"L_STOP", "L_SLOW", "C_L_SLOW", "C_STOP", "C_R_SLOW", "R_SLOW", "R_STOP"}

\* a snapshot is the set of pins that read low (magnet over the sensor)
Snapshots == {s \in SUBSET Pins : Cardinality(s) <= MaxAsserted}

\* what Serial1 delivers to the iteration: nothing, or '7' (leave station
\* now).  'x' changes nothing the train depends on and '1'..'6' open
\* sub-menus that return to the same place of loop().
Commands == {"none", "7"}

\* the time that went by since the previous iteration, in ms: less than the
\* clock grain, or one grain.  The grain divides both runaway limits.
TimeStep == SLOW_MAX_TIMER
Elapses == {0, TimeStep}

\* RTC readings <<hour, minute, second>>: inside / outside the default
\* schedule window, on and off the quarter hour
ClockReadings == {<<12, 15, 0>>, <<12, 15, 1>>, <<12, 16, 0>>,
                  <<23, 0, 0>>, <<5, 59, 0>>}

\* millis() at the instant a millis stamp is taken: shortly after boot, and
\* at an uptime where 999 * millis() has just wrapped the 32-bit counter
UptimeSamples == {SETUP_DELAY, 4299267}

\* stored schedules <<on hour, on minute, off hour, off minute, enabled>>
ScheduleChoices == {<<6, 0, 22, 0, 1>>, <<6, 0, 22, 0, 0>>}
\* stored wait times for stations 0, 1, 2 (seconds): 0 for the middle
\* station is what the menu offers for skipping it.  The wait times that
\* initEeprom() stores come with an EEPROM that lacks the magic number.
WaitChoices == {<<10, 0, 10>>}

(***************************************************************************)
(* Sensor queries.                                                         *)
(***************************************************************************)
check_slow(s) ==
    IF "L_SLOW" \in s THEN 0
    ELSE IF "C_L_SLOW" \in s \/ "C_R_SLOW" \in s THEN 1
    ELSE IF "R_SLOW" \in s THEN 2
    ELSE -1

check_center_slow(s) ==
    IF "C_L_SLOW" \in s THEN 0
    ELSE IF "C_R_SLOW" \in s THEN 2
    ELSE -1

check_stop(s) ==
    IF "L_STOP" \in s THEN 0
    ELSE IF "C_STOP" \in s THEN 1
    ELSE IF "R_STOP" \in s THEN 2
    ELSE -1

(***************************************************************************)
(* Schedule queries.  sched is on_off_times (1-based here), now an RTC     *)
(* reading.                                                                *)
(***************************************************************************)
\* check_schedule() that still runs during the minute of the off time
check_schedule_through_off(sched, now) ==
    IF sched[5] = 0 THEN TRUE
    ELSE LET now_minutes == now[1] * 60 + now[2]
             on_minutes == sched[1] * 60 + sched[2]
             off_minutes == sched[3] * 60 + sched[4]
         IN (now_minutes >= on_minutes) /\ (now_minutes <= off_minutes)

check_schedule(sched, now) ==
    IF sched[5] = 0 THEN TRUE
    ELSE LET now_minutes == now[1] * 60 + now[2]
             on_minutes == sched[1] * 60 + sched[2]
             off_minutes == sched[3] * 60 + sched[4]
         IN (now_minutes >= on_minutes) /\ (now_minutes < off_minutes)

\* depart_time() that forgets to look at the seconds
depart_time_any_second(now) ==
    now[2] = 15 \/ now[2] = 30 \/ now[2] = 45 \/ now[2] = 0

\* depart_time() that knows the hour and the half hour only
depart_time_half_hours(now) ==
    (now[2] = 30 \/ now[2] = 0) /\ now[3] = 0

depart_time(now) ==
    (now[2] = 15 \/ now[2] = 30 \/ now[2] = 45 \/ now[2] = 0) /\ now[3] = 0

(***************************************************************************)
(* Time stamps.                                                            *)
(***************************************************************************)
\* ages stop growing at the largest duration the sketch compares against
AgeCap == RUN_MAX_TIMER

StampMillis(up) == [unit |-> "ms", base |-> up, age |-> 0]
StampMicros == [unit |-> "us", base |-> 0, age |-> 0]

Older(stamp, dt) ==
    [stamp EXCEPT !.age = IF stamp.age + dt > AgeCap THEN AgeCap ELSE stamp.age + dt]

\* millis() - runMillis after dt more ms.  It is kept exactly up to AgeCap;
\* past AgeCap only whether an even or an odd number of grains went by is
\* kept, so that time going by always shows in the state.
Aged(age, dt) ==
    IF dt = 0 THEN age
    ELSE IF age + dt <= AgeCap THEN age + dt
    ELSE IF age = AgeCap THEN AgeCap + dt
    ELSE AgeCap

\* 32-bit unsigned arithmetic on halves [hi, lo]; x and y are below 2^31
MulU32(k, x) ==
    LET l == k * (x % Half)
        h == k * (x \div Half) + (l \div Half)
    IN [hi |-> h % Half, lo |-> l % Half]

SubU32(a, y) ==
    LET borrow == IF a.lo < y % Half THEN 1 ELSE 0
    IN [hi |-> (a.hi + 2 * Half - (y \div Half) - borrow) % Half,
        lo |-> (a.lo + Half - (y % Half)) % Half]

GeU32(a, n) ==
    \/ a.hi > n \div Half
    \/ a.hi = n \div Half /\ a.lo >= n % Half

\* millis() - stamp, for a stamp taken from millis()
MillisSince(stamp) == stamp.age

\* micros() - stamp in 32 bits: the age of a micros() stamp, and for a stamp
\* taken from millis() the difference 1000 * (base + age) - base
MicrosSince(stamp) ==
    IF stamp.unit = "us" THEN MulU32(1000, stamp.age)
    ELSE SubU32(MulU32(1000, stamp.base + stamp.age), stamp.base)

(***************************************************************************)
(* C conversions.                                                          *)
(***************************************************************************)
\* float -> int truncates (speeds are never negative)
ToInt(quarters) == quarters \div QUARTERS
\* bool -> int promotion, ~ on int, int -> bool
BoolToInt(b) == IF b THEN 1 ELSE 0
BitNot(i) == (-i) - 1
IntToBool(i) == i # 0

Moving == {STATE_ACCEL, STATE_RUNNING, STATE_DEACCEL, STATE_SLOW}

(***************************************************************************)
(* The program state as one record, so that the cases of loop() are        *)
(* functions from state and inputs to state.                               *)
(***************************************************************************)
St == [program_state |-> program_state, current_station |-> current_station,
       direction_left |-> direction_left, motor_speed |-> motor_speed,
       prev_motor_speed |-> prev_motor_speed, motor_left |-> motor_left,
       motor_right |-> motor_right, previousMillis |-> previousMillis,
       runMillis |-> runMillis, in_recovery |-> in_recovery,
       station_wait_times |-> station_wait_times,
       on_off_times |-> on_off_times, estop_dir |-> estop_dir]

DirName(left) == IF left THEN "left" ELSE "right"

\* time goes by between two iterations: every stamp gets older
Elapse(s, dt) ==
    [s EXCEPT !.previousMillis = Older(s.previousMillis, dt),
              !.runMillis = Aged(s.runMillis, dt)]

\* the serial menu: only '7' (leave station now) touches the train
\* 'leave station now' honoured only while the train waits at a station
MenuWhenWaiting(s, cmd) ==
    IF cmd = "7" /\ s.program_state = STATE_WAITING
    THEN [s EXCEPT !.motor_speed = START_SPEED * QUARTERS,
                   !.program_state = STATE_ACCEL]
    ELSE s

Menu(s, cmd) ==
    IF cmd = "7"
    THEN [s EXCEPT !.motor_speed = START_SPEED * QUARTERS,
                   !.program_state = STATE_ACCEL]
    ELSE s

CaseSleeping(s, in) ==
    IF check_schedule(s.on_off_times, in.now)
    THEN [s EXCEPT !.program_state = STATE_STARTUP]
    ELSE s

\* the first query of STATE_STARTUP (before the while loop)
StartupFirstQuery(s, station) ==
    LET a == [s EXCEPT !.current_station = station]
        b == IF a.current_station = 0
             THEN [a EXCEPT !.direction_left = TRUE,
                            !.program_state = STATE_ACCEL]
             ELSE a
    IN IF b.current_station >= 1
       THEN [b EXCEPT !.direction_left = FALSE,
                      !.motor_speed = MIN_SPEED * QUARTERS,
                      !.program_state = STATE_ACCEL]
       ELSE b

\* one pass of the body of while (current_station == -1)
StartupRecoveryQuery(s, station) ==
    LET a == [s EXCEPT !.current_station = station]
        b == IF a.current_station = 0
             THEN [a EXCEPT !.direction_left = FALSE,
                            !.program_state = STATE_ACCEL]
             ELSE a
    IN IF b.current_station >= 1
       THEN [b EXCEPT !.direction_left = TRUE,
                      !.motor_speed = MIN_SPEED * QUARTERS,
                      !.program_state = STATE_ACCEL]
       ELSE b

\* what follows the while loop once it is left
StartupLeave(s, up) ==
    [s EXCEPT !.program_state = STATE_ACCEL,
              !.previousMillis = StampMillis(up),
              !.in_recovery = FALSE]

\* STATE_STARTUP without the wait for a stop sensor
CaseStartupNoWait(s, in) ==
    StartupLeave(StartupFirstQuery(s, check_stop(in.s1)), in.up)

CaseStartup(s, in) ==
    LET a == StartupFirstQuery(s, check_stop(in.s1))
    IN IF a.current_station = -1
       THEN [a EXCEPT !.in_recovery = TRUE]
       ELSE StartupLeave(a, in.up)

CaseWaiting(s, in) ==
    LET a == [s EXCEPT !.motor_speed = IDLE_SPEED * QUARTERS]
        b == IF a.current_station # 1
                /\ MillisSince(a.previousMillis) > WAIT_PAUSE_TIMER
             THEN [a EXCEPT !.motor_speed = 0]
             ELSE a
    IN IF ~check_schedule(b.on_off_times, in.now)
       THEN [b EXCEPT !.motor_speed = 0, !.program_state = STATE_SLEEPING]
       ELSE IF \/ /\ b.current_station = 1
                  /\ MillisSince(b.previousMillis)
                       > b.station_wait_times[b.current_station + 1] * 1000
               \/ /\ b.current_station # 1
                  /\ depart_time(in.now)
            THEN [b EXCEPT !.program_state = STATE_ACCEL,
                           !.motor_speed = START_SPEED * QUARTERS,
                           !.previousMillis = StampMicros]
            ELSE b

\* the test for full speed with > for >=
AtMaxSpeedStrict(s) == s.motor_speed > MAX_SPEED * QUARTERS
AtMaxSpeed(s) == s.motor_speed >= MAX_SPEED * QUARTERS

\* a slow sensor counts whatever station it belongs to
SlowHitAnyStation(s, slow) == slow > -1
\* a slow sensor counts unless it is the one of the station the train is at
SlowHit(s, slow) == slow > -1 /\ s.current_station # slow

CaseAccel(s, in) ==
    LET slow == check_slow(in.s1)
    IN IF SlowHit(s, slow)
       THEN [s EXCEPT !.current_station = slow,
                      !.program_state = STATE_DEACCEL,
                      !.previousMillis = StampMicros]
       ELSE LET stop == check_stop(in.s2)
                a == IF stop > -1 /\ stop # 1 /\ s.current_station # stop
                     THEN [s EXCEPT !.current_station = stop,
                                    !.program_state = STATE_STOPPED,
                                    !.previousMillis = StampMicros]
                     ELSE s
            IN IF AtMaxSpeed(a)
               THEN [a EXCEPT !.program_state = STATE_RUNNING,
                              !.runMillis = 0]
               ELSE IF GeU32(MicrosSince(a.previousMillis), ACCEL_TICK_TIME)
                    THEN [a EXCEPT !.motor_speed = a.motor_speed + 1,
                                   !.previousMillis = StampMicros]
                    ELSE a

\* direction_left = ~direction_left, on a bool
Reverse(left) == IntToBool(BitNot(BoolToInt(left)))

EmergencyStop(s) ==
    [s EXCEPT !.program_state = STATE_STOPPED,
              !.direction_left = Reverse(s.direction_left),
              !.estop_dir = DirName(s.direction_left)]

\* the run timer compared in the unit of the acceleration ticks
RunTimedOutInMicros(s) == s.runMillis >= RUN_MAX_TIMER * 1000
RunTimedOut(s) == s.runMillis >= RUN_MAX_TIMER
\* the slow timer with > for >=
SlowTimedOutStrict(s) == s.runMillis > SLOW_MAX_TIMER
SlowTimedOut(s) == s.runMillis >= SLOW_MAX_TIMER

CaseRunning(s, in) ==
    IF RunTimedOut(s)
    THEN EmergencyStop(s)
    ELSE LET slow == check_slow(in.s1)
             a == IF SlowHit(s, slow)
                  THEN [s EXCEPT !.current_station = slow,
                                 !.program_state = STATE_DEACCEL,
                                 !.previousMillis = StampMicros]
                  ELSE s
             stop == check_stop(in.s2)
         IN IF stop > -1 /\ stop # 1
            THEN [a EXCEPT !.current_station = stop,
                           !.program_state = STATE_STOPPED,
                           !.previousMillis = StampMicros]
            ELSE a

\* the far-side middle slow sensor in the direction of travel
CenterArrival(s, snap) ==
    LET c == check_center_slow(snap)
    IN (c = 0 /\ s.direction_left) \/ (c = 2 /\ ~s.direction_left)

CaseDeaccel(s, in) ==
    LET stop == check_stop(in.s1)
    IN IF stop > -1 /\ stop # 1
       THEN [s EXCEPT !.current_station = stop,
                      !.program_state = STATE_STOPPED,
                      !.previousMillis = StampMicros]
       ELSE IF stop = 1 /\ CenterArrival(s, in.s2)
            THEN [s EXCEPT !.current_station = 1,
                           !.program_state = STATE_STOPPED,
                           !.previousMillis = StampMicros]
            ELSE IF s.motor_speed <= MIN_SPEED * QUARTERS
                 THEN [s EXCEPT !.program_state = STATE_SLOW,
                                !.runMillis = 0]
                 ELSE LET deaccel_tick_time ==
                              IF s.current_station = 1
                              THEN DEACCEL_TICK_CENTER
                              ELSE DEACCEL_TICK_TERMINUS
                      IN IF GeU32(MicrosSince(s.previousMillis), deaccel_tick_time)
                            /\ s.motor_speed > MIN_SPEED * QUARTERS
                         THEN [s EXCEPT !.motor_speed = s.motor_speed - QUARTERS,
                                        !.previousMillis = StampMicros]
                         ELSE s

CaseSlow(s, in) ==
    IF SlowTimedOut(s)
    THEN EmergencyStop(s)
    ELSE LET stop == check_stop(in.s1)
         IN IF stop > -1 /\ stop # 1
            THEN [s EXCEPT !.current_station = stop,
                           !.program_state = STATE_STOPPED]
            ELSE IF s.current_station = 1 /\ CenterArrival(s, in.s2)
                 THEN [s EXCEPT !.current_station = 1,
                                !.program_state = STATE_STOPPED,
                                !.previousMillis = StampMicros]
                 ELSE s

\* STATE_STOPPED that puts the train to sleep at whatever station it is
CaseStoppedSleepAnywhere(s, in) ==
    LET a == [s EXCEPT !.motor_speed = IDLE_SPEED * QUARTERS]
        b == IF a.current_station = 2
             THEN [a EXCEPT !.direction_left = TRUE]
             ELSE a
        c == IF b.current_station = 0
             THEN [b EXCEPT !.direction_left = FALSE]
             ELSE b
    IN IF ~check_schedule(c.on_off_times, in.now)
       THEN [c EXCEPT !.program_state = STATE_SLEEPING,
                      !.previousMillis = StampMillis(in.up)]
       ELSE [c EXCEPT !.program_state = STATE_WAITING,
                      !.previousMillis = StampMillis(in.up)]

\* STATE_STOPPED that turns the train round at the right terminus only
CaseStoppedTurnsAtRightOnly(s, in) ==
    LET a == [s EXCEPT !.motor_speed = IDLE_SPEED * QUARTERS]
        c == IF a.current_station = 2
             THEN [a EXCEPT !.direction_left = TRUE]
             ELSE a
    IN IF c.current_station = 0 /\ ~check_schedule(c.on_off_times, in.now)
       THEN [c EXCEPT !.program_state = STATE_SLEEPING,
                      !.previousMillis = StampMillis(in.up)]
       ELSE [c EXCEPT !.program_state = STATE_WAITING,
                      !.previousMillis = StampMillis(in.up)]

CaseStopped(s, in) ==
    LET a == [s EXCEPT !.motor_speed = IDLE_SPEED * QUARTERS]
        b == IF a.current_station = 2
             THEN [a EXCEPT !.direction_left = TRUE]
             ELSE a
        c == IF b.current_station = 0
             THEN [b EXCEPT !.direction_left = FALSE]
             ELSE b
    IN IF c.current_station = 0 /\ ~check_schedule(c.on_off_times, in.now)
       THEN [c EXCEPT !.program_state = STATE_SLEEPING,
                      !.previousMillis = StampMillis(in.up)]
       ELSE [c EXCEPT !.program_state = STATE_WAITING,
                      !.previousMillis = StampMillis(in.up)]

Switch(s, in) ==
    CASE s.program_state = STATE_SLEEPING -> CaseSleeping(s, in)
      [] s.program_state = STATE_STARTUP -> CaseStartup(s, in)
      [] s.program_state = STATE_WAITING -> CaseWaiting(s, in)
      [] s.program_state = STATE_ACCEL -> CaseAccel(s, in)
      [] s.program_state = STATE_RUNNING -> CaseRunning(s, in)
      [] s.program_state = STATE_DEACCEL -> CaseDeaccel(s, in)
      [] s.program_state = STATE_SLOW -> CaseSlow(s, in)
      [] s.program_state = STATE_STOPPED -> CaseStopped(s, in)
      [] OTHER -> s

\* the tail of loop(): write the motor pins when the speed changed
MotorOutput(s) ==
    IF s.motor_speed # s.prev_motor_speed * QUARTERS
    THEN [s EXCEPT !.motor_left = IF s.direction_left
                                  THEN ToInt(s.motor_speed) ELSE 0,
                   !.motor_right = IF s.direction_left
                                   THEN 0 ELSE ToInt(s.motor_speed),
                   !.prev_motor_speed = ToInt(s.motor_speed)]
    ELSE s

\* the record of the last emergency stop is dropped once the train moves again
History(s) ==
    IF s.program_state \in Moving THEN [s EXCEPT !.estop_dir = "none"] ELSE s

\* one iteration of loop(): the clock is read, the menu is served, the case
\* of program_state runs, the motor is driven (each stage is computed once)
Iterate(s, in) ==
    CHOOSE r \in { IF a.in_recovery THEN a ELSE History(MotorOutput(a)) :
                     a \in { Switch(m, in) :
                              m \in { Menu(e, in.cmd) :
                                       e \in {Elapse(s, in.dt)} } } } : TRUE

\* one pass of the while loop of STATE_STARTUP and, once the train is found,
\* the rest of that iteration of loop()
Poll(s, in) ==
    CHOOSE r \in { IF a.current_station = -1 THEN a
                     ELSE History(MotorOutput(StartupLeave(a, in.up))) :
                     a \in { StartupRecoveryQuery(e, check_stop(in.s1)) :
                              e \in {Elapse(s, in.dt)} } } : TRUE

(***************************************************************************)
(* The inputs an iteration can see.  A component the dispatched case does  *)
(* not read is fixed to one value.                                         *)
(***************************************************************************)
\* the pins may change between two check_* calls of one iteration, one pin
\* at a time
Near(s1) == {s2 \in Snapshots : Cardinality((s1 \ s2) \cup (s2 \ s1)) <= 1}

Dispatched(state, cmd) == IF cmd = "7" THEN STATE_ACCEL ELSE state

ReadsSensors(m) == m \in {STATE_STARTUP} \cup Moving
ReadsTwice(m) == m \in Moving
\* cases that read the RTC; STATE_STARTUP does not, its iteration is given
\* its instant all the same
ReadsClock(m) == m \in {STATE_SLEEPING, STATE_STARTUP, STATE_WAITING, STATE_STOPPED}
StampsMillis(m) == m \in {STATE_STARTUP, STATE_STOPPED}

NoClock == <<12, 16, 0>>

InputsTable ==
    [state \in STATE_SLEEPING .. STATE_STOPPED |->
      UNION {
        LET m == Dispatched(state, c)
        IN UNION {
             { [cmd |-> c, dt |-> d, s1 |-> a, s2 |-> b, now |-> n, up |-> u] :
                 d \in Elapses,
                 b \in (IF ReadsTwice(m) THEN Near(a) ELSE {a}),
                 n \in (IF ReadsClock(m) THEN ClockReadings ELSE {NoClock}),
                 u \in (IF StampsMillis(m) THEN UptimeSamples ELSE {SETUP_DELAY}) }
             : a \in (IF ReadsSensors(m) THEN Snapshots ELSE {{}}) }
        : c \in Commands }]

InputsOf(state) == InputsTable[state]

PollInputs ==
    { [cmd |-> "none", dt |-> d, s1 |-> a, s2 |-> a, now |-> n, up |-> u] :
        d \in Elapses, a \in Snapshots, n \in ClockReadings, u \in UptimeSamples }

(***************************************************************************)
(* The state machine.                                                      *)
(***************************************************************************)
Becomes(s) ==
    /\ program_state' = s.program_state
    /\ current_station' = s.current_station
    /\ direction_left' = s.direction_left
    /\ motor_speed' = s.motor_speed
    /\ prev_motor_speed' = s.prev_motor_speed
    /\ motor_left' = s.motor_left
    /\ motor_right' = s.motor_right
    /\ previousMillis' = s.previousMillis
    /\ runMillis' = s.runMillis
    /\ in_recovery' = s.in_recovery
    /\ station_wait_times' = s.station_wait_times
    /\ on_off_times' = s.on_off_times
    /\ estop_dir' = s.estop_dir

(***************************************************************************)
(* The EEPROM.  EEPROM.put() copies the bytes of an object into the EEPROM *)
(* and EEPROM.get() copies them back; an int is two bytes on the AVR, low  *)
(* byte first, negative values in two's complement.                        *)
(***************************************************************************)
\* the bytes of a uint16_t
WordBytes(u) == <<u % 256, u \div 256>>
BytesWord(b) == b[1] + 256 * b[2]

\* the bytes of an int of which only the low byte is stored
IntBytesLowOnly(v) == <<((v + 65536) % 65536) % 256, 0>>

\* the bytes of an int
IntBytes(v) == WordBytes((v + 65536) % 65536)
BytesInt(b) ==
    IF BytesWord(b) >= 32768 THEN BytesWord(b) - 65536 ELSE BytesWord(b)

\* EEPROM.put() and EEPROM.get() of an array of int
EEPROM_put(ints) ==
    [i \in 1 .. 2 * Len(ints) |-> IntBytes(ints[(i + 1) \div 2])[2 - (i % 2)]]
EEPROM_get(bytes) ==
    [k \in 1 .. (Len(bytes) \div 2) |->
       BytesInt(<<bytes[2 * k - 1], bytes[2 * k]>>)]

\* the defaults initEeprom() puts into RAM: the loop stops before the last
\* slot, which keeps what it held
initEeprom_wait(ram) ==
    [slot \in 1 .. NUM_STOPS |->
       IF slot - 1 < NUM_STOPS - 1 THEN 10 ELSE ram[slot]]

initEeprom_schedule == <<6, 0, 22, 0, 1>>

\* what the EEPROM can hold at power-on: the magic number or an erased word,
\* and some wait times and schedule
EepromImages ==
    { [magic |-> WordBytes(m), wait |-> EEPROM_put(w), sched |-> EEPROM_put(s)] :
        m \in {EE_MAGIC_NUMBER, 65535}, w \in WaitChoices,
        s \in ScheduleChoices }

NothingSaved == [wait |-> <<>>, sched |-> <<>>, reloaded |-> FALSE]

\* the state at power-on: the globals as initialised
Init ==
    /\ program_state = STATE_STARTUP
    /\ current_station = 3
    /\ direction_left = FALSE
    /\ motor_speed = 0
    /\ prev_motor_speed = 0
    /\ motor_left = 0
    /\ motor_right = 0
    /\ previousMillis = [unit |-> "ms", base |-> 0, age |-> 0]
    /\ runMillis = 0
    /\ in_recovery = FALSE
    /\ station_wait_times = [slot \in 1 .. NUM_STOPS |-> 0]
    /\ on_off_times = <<0, 0, 0, 0, 0>>
    /\ estop_dir = "none"
    /\ eeprom \in EepromImages
    /\ booted = FALSE
    /\ saved = NothingSaved
    /\ rtc = NoClock
    /\ query = "none"
    /\ answer = FALSE

\* setup(): the configuration is loaded from the EEPROM, or set to the
\* defaults and stored when the magic number is not there
Setup ==
    /\ ~booted
    /\ booted' = TRUE
    /\ IF BytesWord(eeprom.magic) # EE_MAGIC_NUMBER
       THEN /\ station_wait_times' = initEeprom_wait(station_wait_times)
            /\ on_off_times' = initEeprom_schedule
            /\ eeprom' = [magic |-> WordBytes(EE_MAGIC_NUMBER),
                          wait |-> EEPROM_put(initEeprom_wait(station_wait_times)),
                          sched |-> EEPROM_put(initEeprom_schedule)]
       ELSE /\ station_wait_times' = EEPROM_get(eeprom.wait)
            /\ on_off_times' = EEPROM_get(eeprom.sched)
            /\ eeprom' = eeprom
    /\ saved' = [saved EXCEPT !.reloaded =
                               BytesWord(eeprom.magic) = EE_MAGIC_NUMBER]
    /\ previousMillis' = Older(previousMillis, SETUP_DELAY)
    /\ runMillis' = Aged(runMillis, SETUP_DELAY)
    /\ UNCHANGED <<program_state, current_station, direction_left,
                   motor_speed, prev_motor_speed, motor_left, motor_right,
                   in_recovery, estop_dir, clockvars>>

Loop ==
    /\ booted /\ ~in_recovery
    /\ \E in \in InputsOf(program_state) : \E x \in {Iterate(St, in)} : Becomes(x)
    /\ UNCHANGED <<eeprom, booted, saved, clockvars>>

StartupWait ==
    /\ booted /\ in_recovery
    /\ \E in \in PollInputs : \E x \in {Poll(St, in)} : Becomes(x)
    /\ UNCHANGED <<eeprom, booted, saved, clockvars>>

Next == Setup \/ Loop \/ StartupWait

Spec == Init /\ [][Next]_vars

(***************************************************************************)
(* The same machine when no 'leave station now' arrives while the train is *)
(* under way and time keeps advancing: an iteration that finds the clock   *)
(* one grain further comes again and again.  Every iteration sees one      *)
(* snapshot of the pins, whatever it is.                                   *)
(***************************************************************************)
LiveInput(c, d, a, n, u) ==
    [cmd |-> c, dt |-> d, s1 |-> a, s2 |-> a, now |-> n, up |-> u]

LoopUndisturbed ==
    /\ booted /\ ~in_recovery
    /\ UNCHANGED <<eeprom, booted, saved, clockvars>>
    /\ \E c \in (IF program_state \in Moving THEN {"none"} ELSE Commands),
          d \in Elapses :
         \E a \in (IF ReadsSensors(Dispatched(program_state, c))
                   THEN Snapshots ELSE {{}}),
            n \in (IF ReadsClock(Dispatched(program_state, c))
                   THEN ClockReadings ELSE {NoClock}),
            u \in (IF StampsMillis(Dispatched(program_state, c))
                   THEN UptimeSamples ELSE {SETUP_DELAY}) :
           \E x \in {Iterate(St, LiveInput(c, d, a, n, u))} : Becomes(x)

LoopLater ==
    /\ booted /\ ~in_recovery
    /\ UNCHANGED <<eeprom, booted, saved, clockvars>>
    /\ \E a \in (IF ReadsSensors(program_state) THEN Snapshots ELSE {{}}),
          n \in (IF ReadsClock(program_state) THEN ClockReadings ELSE {NoClock}),
          u \in (IF StampsMillis(program_state) THEN UptimeSamples ELSE {SETUP_DELAY}) :
         \E x \in {Iterate(St, LiveInput("none", TimeStep, a, n, u))} : Becomes(x)

NextUndisturbed == Setup \/ LoopUndisturbed \/ StartupWait

SpecLive == Init /\ [][NextUndisturbed]_vars /\ WF_vars(LoopLater)

(***************************************************************************)
(* The same machine when the sensor lines are free to change between the   *)
(* two check_* calls of an iteration: the second call can find any         *)
(* snapshot, whatever the first one found.                                 *)
(***************************************************************************)
RaceInputsTable ==
    [state \in STATE_SLEEPING .. STATE_STOPPED |->
      UNION {
        LET m == Dispatched(state, c)
        IN UNION {
             { [cmd |-> c, dt |-> d, s1 |-> a, s2 |-> b, now |-> n, up |-> u] :
                 d \in Elapses,
                 b \in (IF ReadsTwice(m) THEN Snapshots ELSE {a}),
                 n \in (IF ReadsClock(m) THEN ClockReadings ELSE {NoClock}),
                 u \in (IF StampsMillis(m) THEN UptimeSamples ELSE {SETUP_DELAY}) }
             : a \in (IF ReadsSensors(m) THEN Snapshots ELSE {{}}) }
        : c \in Commands }]

LoopRace ==
    /\ booted /\ ~in_recovery
    /\ \E in \in RaceInputsTable[program_state] :
         \E x \in {Iterate(St, in)} : Becomes(x)
    /\ UNCHANGED <<eeprom, booted, saved, clockvars>>

NextRace == Setup \/ LoopRace \/ StartupWait

SpecRace == Init /\ [][NextRace]_vars

(***************************************************************************)
(* The schedule queries on their own: the configuration is loaded, the RTC *)
(* shows some instant, and check_schedule() and depart_time() are called.  *)
(***************************************************************************)
\* every hour and minute (for check_schedule, which reads no seconds) and
\* every minute and second (for depart_time, which reads no hours)
ClockInstants ==
    {<<h, m, 0>> : h \in 0 .. 23, m \in 0 .. 59}
      \cup {<<12, m, s>> : m \in 0 .. 59, s \in 0 .. 59}

\* schedules as setOnOffTime() can store them
ClockSchedules ==
    ScheduleChoices \cup {<<6, 30, 22, 15, 1>>, <<22, 0, 6, 0, 1>>}

InitClock ==
    /\ program_state = STATE_STARTUP
    /\ current_station = 3
    /\ direction_left = FALSE
    /\ motor_speed = 0
    /\ prev_motor_speed = 0
    /\ motor_left = 0
    /\ motor_right = 0
    /\ previousMillis = [unit |-> "ms", base |-> 0, age |-> SETUP_DELAY]
    /\ runMillis = SETUP_DELAY
    /\ in_recovery = FALSE
    /\ station_wait_times \in WaitChoices
    /\ on_off_times \in ClockSchedules
    /\ estop_dir = "none"
    /\ eeprom = [magic |-> WordBytes(EE_MAGIC_NUMBER),
                 wait |-> EEPROM_put(station_wait_times),
                 sched |-> EEPROM_put(on_off_times)]
    /\ booted = TRUE
    /\ saved = NothingSaved
    /\ rtc \in ClockInstants
    /\ query = "none"
    /\ answer = FALSE

AskSchedule ==
    /\ query' = "check_schedule"
    /\ answer' = check_schedule(on_off_times, rtc)
    /\ UNCHANGED <<loopvars, eeprom, booted, saved, rtc>>

AskDepart ==
    /\ query' = "depart_time"
    /\ answer' = depart_time(rtc)
    /\ UNCHANGED <<loopvars, eeprom, booted, saved, rtc>>

NextClock == AskSchedule \/ AskDepart

SpecClock == InitClock /\ [][NextClock]_vars

(***************************************************************************)
(* The configuration on its own: the menu functions that edit and store it *)
(* and the power cycle that makes setup() load it again.                   *)
(***************************************************************************)
\* at most this many stations are edited in one call of editStations()
MaxEdits == 2

\* wait times typed in (getSerial1Int() >= 0 is asked for)
WaitEntries == {0, 10, 300}
\* hours and minutes typed in: getSerial1Int() checks nothing, and five
\* digits overflow the int (40000 arrives as -25536)
HourEntries == {6, 22, -25536}
MinuteEntries == {0, 300}

\* one edit is <<slot, stopTime>>; a session is the edits of one call
StationEdits == {<<slot, stopTime>> : slot \in 0 .. NUM_STOPS - 1,
                                      stopTime \in WaitEntries}
EditSessions ==
    UNION { [1 .. n -> StationEdits] : n \in 1 .. MaxEdits }

RECURSIVE editStations_ram(_, _)
editStations_ram(ram, edits) ==
    IF edits = <<>> THEN ram
    ELSE editStations_ram([ram EXCEPT ![Head(edits)[1] + 1] = Head(edits)[2]],
                          Tail(edits))

\* editStations(): the chosen slots are set in RAM, and on 'n' the whole
\* array is put into the EEPROM
EditStations ==
    /\ booted
    /\ \E edits \in EditSessions :
         \E ram \in {editStations_ram(station_wait_times, edits)} :
           /\ station_wait_times' = ram
           /\ eeprom' = [eeprom EXCEPT !.wait = EEPROM_put(ram)]
           /\ saved' = [saved EXCEPT !.wait = ram, !.reloaded = FALSE]
    /\ UNCHANGED <<program_state, current_station, direction_left,
                   motor_speed, prev_motor_speed, motor_left, motor_right,
                   previousMillis, runMillis, in_recovery, on_off_times,
                   estop_dir, booted, clockvars>>

\* setOnOffTime(): the five entries are read into RAM, the last one again
\* until it is 0 or 1, and on ESC the array is put into the EEPROM
SetOnOffTime ==
    /\ booted
    /\ \E on_h \in HourEntries, on_m \in MinuteEntries, off_h \in HourEntries,
          off_m \in MinuteEntries, enabled \in {0, 1} :
         \E ram \in {<<on_h, on_m, off_h, off_m, enabled>>} :
           /\ on_off_times' = ram
           /\ eeprom' = [eeprom EXCEPT !.sched = EEPROM_put(ram)]
           /\ saved' = [saved EXCEPT !.sched = ram, !.reloaded = FALSE]
    /\ UNCHANGED <<program_state, current_station, direction_left,
                   motor_speed, prev_motor_speed, motor_left, motor_right,
                   previousMillis, runMillis, in_recovery, station_wait_times,
                   estop_dir, booted, clockvars>>

\* power off and on: the globals are initialised again, the EEPROM stays
PowerCycle ==
    /\ booted
    /\ booted' = FALSE
    /\ program_state' = STATE_STARTUP
    /\ current_station' = 3
    /\ direction_left' = FALSE
    /\ motor_speed' = 0
    /\ prev_motor_speed' = 0
    /\ motor_left' = 0
    /\ motor_right' = 0
    /\ previousMillis' = [unit |-> "ms", base |-> 0, age |-> 0]
    /\ runMillis' = 0
    /\ in_recovery' = FALSE
    /\ station_wait_times' = [slot \in 1 .. NUM_STOPS |-> 0]
    /\ on_off_times' = <<0, 0, 0, 0, 0>>
    /\ estop_dir' = "none"
    /\ UNCHANGED <<eeprom, saved, clockvars>>

NextConfig == Setup \/ EditStations \/ SetOnOffTime \/ PowerCycle

SpecConfig == Init /\ [][NextConfig]_vars

(***************************************************************************)
(* Steps and their inputs, for the properties below.                       *)
(***************************************************************************)
AsVars(s) ==
    <<s.program_state, s.current_station, s.direction_left, s.motor_speed,
      s.prev_motor_speed, s.motor_left, s.motor_right, s.previousMillis,
      s.runMillis, s.in_recovery, s.station_wait_times, s.on_off_times,
      s.estop_dir>>

\* this step is the loop() iteration with inputs in
LoopStep(in) ==
    booted /\ ~in_recovery /\ \E x \in {Iterate(St, in)} : loopvars' = AsVars(x)
\* this step is the pass of the startup while loop with inputs in
PollStep(in) ==
    booted /\ in_recovery /\ \E x \in {Poll(St, in)} : loopvars' = AsVars(x)

Stations == {0, 1, 2}
Terminus == {0, 2}
QuarterHour(now) == now[2] \in {0, 15, 30, 45} /\ now[3] = 0

\* an iteration without a serial character and without any sensor asserted
QuietInput(d) ==
    [cmd |-> "none", dt |-> d, s1 |-> {}, s2 |-> {}, now |-> NoClock,
     up |-> SETUP_DELAY]

\* an iteration of STATE_WAITING without a serial character
WaitingInput(d, n) ==
    [cmd |-> "none", dt |-> d, s1 |-> {}, s2 |-> {}, now |-> n,
     up |-> SETUP_DELAY]

(***************************************************************************)
(* Properties.                                                             *)
(***************************************************************************)

\* C1: the train is never run un-located: whenever the mode is Accelerating,
\* Running, Decelerating or Slow, current_station is one of 0, 1, 2.
C1_NeverRunUnlocated ==
    program_state \in Moving => current_station \in Stations

\* C2: the mode leaves Startup only to Accelerating and only with a station
\* index returned by check_stop(); without one it stays Startup.
C2_StartupUntilFound ==
    [][(program_state = STATE_STARTUP /\ program_state' # STATE_STARTUP)
         => (program_state' = STATE_ACCEL /\ current_station' \in Stations)]_vars

\* C3: when Startup leaves to Accelerating with the train located, the
\* direction is right at station 0 and left at stations 1 and 2, on the
\* first query as in the recovery wait.
C3_StartupDirection ==
    [][(program_state = STATE_STARTUP /\ program_state' = STATE_ACCEL
          /\ current_station' \in Stations)
         => (direction_left' = (current_station' # 0))]_vars

\* C4: from every state whose mode is Accelerating, Running, Decelerating or
\* Slow the mode eventually becomes Stopped, when the loop keeps iterating,
\* time advances and no 'leave station now' arrives, whatever the sensors
\* report.
C4_RunTimeLimited ==
    (program_state \in Moving) ~> (program_state = STATE_STOPPED)

\* a stop forced by the run timer
C4_Witness ==
    /\ program_state = STATE_STOPPED
    /\ estop_dir # "none"
    /\ runMillis >= RUN_MAX_TIMER

Timed == {STATE_RUNNING, STATE_SLOW}
Limit(m) == IF m = STATE_RUNNING THEN RUN_MAX_TIMER ELSE SLOW_MAX_TIMER

\* C5: in Running (Slow) an iteration without sensor events keeps the mode
\* while the time since the mode was entered is below RUN_MAX_TIMER
\* (SLOW_MAX_TIMER) and makes it Stopped once it is at or above; every entry
\* into Running or Slow restarts that time at 0.
C5_TimersFireAtBoundary ==
    [][/\ \A d \in Elapses :
            (program_state \in Timed /\ LoopStep(QuietInput(d)))
              => program_state' = IF runMillis' < Limit(program_state)
                                  THEN program_state ELSE STATE_STOPPED
       /\ (program_state' \in Timed /\ program_state' # program_state)
            => runMillis' = 0]_vars

\* the slow timer has fired at exactly SLOW_MAX_TIMER
C5_Witness ==
    /\ program_state = STATE_STOPPED
    /\ estop_dir # "none"
    /\ runMillis = SLOW_MAX_TIMER

\* C6: the step in which the Running or Slow timeout fires negates
\* direction_left.
C6_TimeoutReverses ==
    [][(estop_dir = "none" /\ estop_dir' # "none")
         => (direction_left' = ~direction_left)]_vars

\* C7: the direction on the next entry into Accelerating after an emergency
\* stop, through Stopped and Waiting, is the opposite of the direction the
\* train had when the timeout fired.
C7_LeavesTheOtherWay ==
    [][(estop_dir # "none" /\ program_state = STATE_WAITING
          /\ program_state' = STATE_ACCEL)
         => (DirName(direction_left') # estop_dir)]_vars

C9_MotorOffAsleep ==
    program_state = STATE_SLEEPING => motor_speed = 0

\* C10: every step into Sleeping is taken with current_station = 0.
C10_SleepsAtLeftmost ==
    [][(program_state # STATE_SLEEPING /\ program_state' = STATE_SLEEPING)
         => current_station' = 0]_vars

\* C11: while Waiting at station 1 a step never goes to Sleeping; while
\* Waiting at station 0 or 2 an iteration that finds the schedule off goes to
\* Sleeping with speed 0.
C11_SleepFromWaitingAtTerminus ==
    [][/\ (program_state = STATE_WAITING /\ current_station = 1)
            => program_state' # STATE_SLEEPING
       /\ (program_state = STATE_WAITING /\ current_station \in Terminus)
            => \A d \in Elapses, n \in ClockReadings :
                 (LoopStep(WaitingInput(d, n))
                    /\ ~check_schedule(on_off_times, n))
                   => (program_state' = STATE_SLEEPING /\ motor_speed' = 0)]_vars

\* C12: the commanded speed is within [0, MAX_SPEED] in every reachable
\* state (motor_speed is in quarter units).
C12_SpeedWithinRange ==
    motor_speed >= 0 /\ motor_speed <= MAX_SPEED * QUARTERS

\* the ramp has reached MAX_SPEED and the train runs
C12_Witness ==
    program_state = STATE_RUNNING /\ motor_speed = MAX_SPEED * QUARTERS

\* C13: whenever the mode is Accelerating, Running, Decelerating or Slow the
\* commanded speed is at least MIN_SPEED.
C13_AtLeastMinWhileMoving ==
    program_state \in Moving => motor_speed >= MIN_SPEED * QUARTERS

\* C14: a step that begins and ends in Accelerating does not decrease the
\* speed and a step that begins and ends in Decelerating does not increase
\* it, menu commands included.
C14_MonotoneRamp ==
    [][/\ (program_state = STATE_ACCEL /\ program_state' = STATE_ACCEL)
            => motor_speed' >= motor_speed
       /\ (program_state = STATE_DEACCEL /\ program_state' = STATE_DEACCEL)
            => motor_speed' <= motor_speed]_vars

\* C15 as stated: current_station is always one of -1, 0, 1, 2, and -1 only
\* in Startup or Sleeping, before the train is located.
C15_StationInRange ==
    /\ current_station \in {-1, 0, 1, 2}
    /\ current_station = -1
         => program_state \in {STATE_STARTUP, STATE_SLEEPING}

\* C15 amended: current_station is always one of -1, 0, 1, 2 or the power-on
\* value 3; it is -1 only in Startup while the train is waited for, and no
\* step sets it to 3.
C15_StationInRangeOrPowerOn ==
    [][/\ current_station' \in {-1, 0, 1, 2, 3}
       /\ current_station' = -1
            => (program_state' = STATE_STARTUP /\ in_recovery')
       /\ current_station' = 3 => current_station = 3]_vars

\* the train is not found and waited for
C15_Witness ==
    program_state = STATE_STARTUP /\ in_recovery /\ current_station = -1

\* C16: at the end of every loop iteration exactly one motor channel is
\* non-zero, the other is zero, and the non-zero one is the left channel
\* exactly when direction_left is true.
C16_OneChannelReflectsDirection ==
    [][(booted /\ ~in_recovery')
         => \/ (motor_left' # 0 /\ motor_right' = 0 /\ direction_left')
            \/ (motor_right' # 0 /\ motor_left' = 0 /\ ~direction_left')]_vars

\* an iteration in which '7' arrives and no sensor is asserted
LeaveNowInput(d) ==
    [cmd |-> "7", dt |-> d, s1 |-> {}, s2 |-> {}, now |-> NoClock,
     up |-> SETUP_DELAY]

MinuteOfDay(h, m) == h * 60 + m

\* C18: check_schedule() answers true at every instant when the schedule is
\* disabled, and when it is enabled exactly when the minute of the day is at
\* or after the on time and before the off time; with on 06:00, off 22:00,
\* enabled: true at 12:00, false at 23:00 and at 05:59.
C18_ScheduleWindow ==
    [][AskSchedule
         => /\ answer' = (\/ on_off_times[5] = 0
                          \/ /\ MinuteOfDay(on_off_times[1], on_off_times[2])
                                  <= MinuteOfDay(rtc[1], rtc[2])
                             /\ MinuteOfDay(rtc[1], rtc[2])
                                  < MinuteOfDay(on_off_times[3], on_off_times[4]))
            /\ on_off_times = <<6, 0, 22, 0, 1>>
                 => /\ (rtc[1] = 12 /\ rtc[2] = 0) => answer'
                    /\ (rtc[1] = 23 /\ rtc[2] = 0) => ~answer'
                    /\ (rtc[1] = 5 /\ rtc[2] = 59) => ~answer']_vars

\* check_schedule() has answered false at 23:00 under the default schedule
C18_Witness ==
    /\ query = "check_schedule"
    /\ on_off_times = <<6, 0, 22, 0, 1>>
    /\ rtc = <<23, 0, 0>>
    /\ ~answer

\* C19: depart_time() answers true exactly when the second is 0 and the
\* minute is 0, 15, 30 or 45; false at minute 16 second 0 and at minute 15
\* second 1.
C19_DepartureInstant ==
    [][AskDepart
         => /\ answer' = (rtc[3] = 0 /\ rtc[2] \in {0, 15, 30, 45})
            /\ (rtc[2] = 16 /\ rtc[3] = 0) => ~answer'
            /\ (rtc[2] = 15 /\ rtc[3] = 1) => ~answer']_vars

\* depart_time() has answered true at a quarter hour
C19_Witness ==
    query = "depart_time" /\ rtc = <<12, 45, 0>> /\ answer

\* C20: when setup() finds no magic number, the wait time of each of the
\* three stations becomes 10 and the schedule 06:00 to 22:00, enabled, in RAM
\* as in the EEPROM, and the stored magic number matches afterwards.
C20_DefaultsOnMismatch ==
    [][(~booted /\ BytesWord(eeprom.magic) # EE_MAGIC_NUMBER)
         => /\ station_wait_times' = <<10, 10, 10>>
            /\ on_off_times' = <<6, 0, 22, 0, 1>>
            /\ BytesWord(eeprom'.magic) = EE_MAGIC_NUMBER
            /\ EEPROM_get(eeprom'.wait) = <<10, 10, 10>>
            /\ EEPROM_get(eeprom'.sched) = <<6, 0, 22, 0, 1>>]_vars

\* C21: once wait times were saved by editStations() and a schedule by
\* setOnOffTime(), a setup() that finds the magic number loads
\* station_wait_times and on_off_times equal to the values last saved.
C21_ConfigRoundTrip ==
    [][(/\ ~booted /\ booted'
        /\ BytesWord(eeprom.magic) = EE_MAGIC_NUMBER
        /\ saved.wait # <<>> /\ saved.sched # <<>>)
         => (station_wait_times' = saved.wait /\ on_off_times' = saved.sched)]_vars

\* setup() has loaded a saved configuration whose values need both bytes of
\* an int and its sign
C21_Witness ==
    /\ booted /\ saved.reloaded
    /\ saved.wait = <<10, 0, 300>>
    /\ saved.sched = <<-25536, 300, 22, 0, 1>>
    /\ station_wait_times = saved.wait
    /\ on_off_times = saved.sched

\* C22: with station_wait_times[1] = 0 the mode is never Stopped or Waiting
\* with current_station = 1.
C22_MiddleStationSkipped ==
    (booted /\ station_wait_times[2] = 0)
      => ~(program_state \in {STATE_STOPPED, STATE_WAITING}
             /\ current_station = 1)

\* the speed the case of program_state works on: 'leave station now' has
\* set it to START_SPEED
SpeedAfterMenu(in) ==
    IF in.cmd = "7" THEN START_SPEED * QUARTERS ELSE motor_speed

\* C23 as stated: in Accelerating an iteration that sees a slow sensor of
\* another station ends in Decelerating with current_station set to that
\* station; one that sees the slow sensor of current_station changes neither
\* the mode nor current_station.
C23_SlowHitInAccel ==
    (booted /\ program_state = STATE_ACCEL)
      => \A in \in InputsOf(STATE_ACCEL) : \A x \in {Iterate(St, in)} :
           /\ (check_slow(in.s1) > -1 /\ check_slow(in.s1) # current_station)
                => (x.program_state = STATE_DEACCEL
                      /\ x.current_station = check_slow(in.s1))
           /\ check_slow(in.s1) = current_station
                => (x.program_state = STATE_ACCEL
                      /\ x.current_station = current_station)

\* C23 amended: in Accelerating an iteration that sees a slow sensor of
\* another station ends in Decelerating with current_station set to that
\* station; the slow sensor of current_station is disregarded: the iteration
\* never ends in Decelerating, it ends in Running when the speed has reached
\* MAX_SPEED, else in Stopped at a terminus other than current_station whose
\* stop sensor is asserted, else in Accelerating with current_station
\* unchanged.
C23_SameStationSlowDisregarded ==
    (booted /\ program_state = STATE_ACCEL)
      => \A in \in InputsOf(STATE_ACCEL) : \A x \in {Iterate(St, in)} :
           /\ (check_slow(in.s1) > -1 /\ check_slow(in.s1) # current_station)
                => (x.program_state = STATE_DEACCEL
                      /\ x.current_station = check_slow(in.s1))
           /\ check_slow(in.s1) = current_station
                => LET stop == check_stop(in.s2)
                       other == stop \in Terminus /\ stop # current_station
                   IN /\ x.current_station = IF other THEN stop
                                              ELSE current_station
                      /\ x.program_state =
                           IF SpeedAfterMenu(in) >= MAX_SPEED * QUARTERS
                           THEN STATE_RUNNING
                           ELSE IF other THEN STATE_STOPPED ELSE STATE_ACCEL

\* the train was slowed down by a slow sensor one tick after it had left
C23_Witness ==
    /\ program_state = STATE_DEACCEL
    /\ motor_speed = START_SPEED * QUARTERS + 1
    /\ previousMillis = StampMicros

\* C24: in Accelerating an iteration that sees no slow sensor and the stop
\* sensor of a terminus other than current_station ends in Stopped with
\* current_station set to that terminus, whatever the commanded speed.
C24_StopHitInAccel ==
    (booted /\ program_state = STATE_ACCEL)
      => \A in \in InputsOf(STATE_ACCEL) : \A x \in {Iterate(St, in)} :
           (/\ in.s1 = in.s2
            /\ check_slow(in.s1) = -1
            /\ check_stop(in.s2) \in Terminus
            /\ check_stop(in.s2) # current_station)
             => (x.program_state = STATE_STOPPED
                   /\ x.current_station = check_stop(in.s2))

\* the middle slow sensor on the far side in the direction of travel
FarSlowPin == IF direction_left THEN "C_L_SLOW" ELSE "C_R_SLOW"

\* C25: in Decelerating with current_station = 1 an iteration (no serial
\* character, no terminus stop sensor asserted) ends in Stopped exactly when
\* the far-side middle slow sensor is asserted, whether or not the middle
\* stop sensor is asserted.
C25_MiddleStopSensorPlaysNoRole ==
    (booted /\ program_state = STATE_DEACCEL /\ current_station = 1)
      => \A in \in InputsOf(STATE_DEACCEL) : \A x \in {Iterate(St, in)} :
           (/\ in.cmd = "none"
            /\ in.s1 = in.s2
            /\ in.s1 \cap {"L_STOP", "R_STOP"} = {})
             => (x.program_state = STATE_STOPPED <=> FarSlowPin \in in.s1)

\* the state with the mode replaced
InMode(m) == [St EXCEPT !.program_state = m]

\* C26: for every sensor snapshot, current_station and direction_left, and
\* with no timeout pending, an iteration in Slow ends in Stopped exactly when
\* an iteration in Decelerating from the same snapshot, station and direction
\* does, and then with the same current_station.
C26_SameArrivalDetection ==
    (booted /\ program_state \in {STATE_SLOW, STATE_DEACCEL}
       /\ ~SlowTimedOut(St))
      => \A in \in InputsOf(STATE_SLOW) :
           (in.cmd = "none" /\ in.dt = 0 /\ in.s1 = in.s2)
             => \A x \in {Iterate(InMode(STATE_SLOW), in)},
                   y \in {Iterate(InMode(STATE_DEACCEL), in)} :
                  /\ x.program_state = STATE_STOPPED
                       <=> y.program_state = STATE_STOPPED
                  /\ x.program_state = STATE_STOPPED
                       => x.current_station = y.current_station

\* C27: in Decelerating an iteration without sensor events and without a
\* serial character that stays in Decelerating keeps the speed or lowers it
\* by exactly 1, and on every step from Decelerating to Slow the commanded
\* speed is MIN_SPEED.
C27_SlowEnteredAtMinSpeed ==
    [][/\ program_state = STATE_DEACCEL
            => \A d \in Elapses :
                 (LoopStep(QuietInput(d)) /\ program_state' = STATE_DEACCEL)
                   => motor_speed' \in {motor_speed, motor_speed - QUARTERS}
       /\ (program_state = STATE_DEACCEL /\ program_state' = STATE_SLOW)
            => motor_speed' = MIN_SPEED * QUARTERS]_vars

\* C28: an iteration that runs the Stopped case (no 'leave station now'
\* arrives) ends in Sleeping exactly when current_station = 0 and the
\* schedule is off at that instant, and in Waiting in every other case; in
\* both cases the commanded speed is IDLE_SPEED and the wait timer is a
\* millis() stamp taken in that iteration.
C28_StoppedDecides ==
    (booted /\ program_state = STATE_STOPPED)
      => \A in \in InputsOf(STATE_STOPPED) : \A x \in {Iterate(St, in)} :
           in.cmd = "none"
             => /\ x.program_state =
                     IF current_station = 0
                        /\ ~check_schedule(on_off_times, in.now)
                     THEN STATE_SLEEPING ELSE STATE_WAITING
                /\ x.motor_speed = IDLE_SPEED * QUARTERS
                /\ x.previousMillis = [unit |-> "ms", base |-> in.up, age |-> 0]

\* the train was put to sleep from Stopped at the left terminus
C28_Witness ==
    /\ program_state = STATE_SLEEPING
    /\ current_station = 0
    /\ motor_speed = IDLE_SPEED * QUARTERS
    /\ previousMillis.unit = "ms" /\ previousMillis.age = 0

\* C29: a step of the Stopped case (to Waiting or Sleeping) leaves
\* direction_left true with current_station = 2, false with current_station
\* = 0 and unchanged with current_station = 1; every step from Waiting to
\* Accelerating at station 0 leaves rightward and at station 2 leftward.
C29_DirectionSetAtTerminus ==
    [][/\ (program_state = STATE_STOPPED
             /\ program_state' \in {STATE_WAITING, STATE_SLEEPING})
            => direction_left' = IF current_station = 2 THEN TRUE
                                 ELSE IF current_station = 0 THEN FALSE
                                 ELSE direction_left
       /\ (program_state = STATE_WAITING /\ program_state' = STATE_ACCEL
             /\ current_station \in Terminus)
            => (current_station' = current_station
                  /\ direction_left' = (current_station = 2))]_vars

\* the train has left the left terminus, rightward
C29_Witness ==
    /\ program_state = STATE_ACCEL
    /\ current_station = 0
    /\ ~direction_left
    /\ motor_right = START_SPEED
    /\ motor_speed = START_SPEED * QUARTERS
    /\ previousMillis = StampMicros

\* C30: an iteration of the Waiting case without a serial character, with
\* the schedule on, ends in Accelerating exactly when current_station = 1
\* and more than station_wait_times[1] seconds have gone by since the wait
\* timer was started, or current_station is 0 or 2 and the instant is a
\* quarter hour (minute 0, 15, 30 or 45, second 0), and in Waiting
\* otherwise; with the schedule off it does not end in Accelerating.
C30_DepartureFromWaiting ==
    (booted /\ program_state = STATE_WAITING)
      => \A in \in InputsOf(STATE_WAITING) : \A x \in {Iterate(St, in)} :
           in.cmd = "none"
             => LET elapsed == Older(previousMillis, in.dt).age
                    leaves ==
                      \/ current_station = 1
                           /\ elapsed > station_wait_times[2] * 1000
                      \/ current_station \in Terminus /\ QuarterHour(in.now)
                IN IF check_schedule(on_off_times, in.now)
                   THEN x.program_state = IF leaves THEN STATE_ACCEL
                                          ELSE STATE_WAITING
                   ELSE x.program_state # STATE_ACCEL

\* the state of an iteration when it reaches the motor output
BeforeOutput(s, in) == Switch(Menu(Elapse(s, in.dt), in.cmd), in)
\* the motor output writes the channels
WritesMotor(a) == a.motor_speed # a.prev_motor_speed * QUARTERS

\* C31: an iteration at whose end the commanded speed is what it was at the
\* end of the previous iteration does not write the motor channels, for
\* whole and for fractional speeds.
C31_NoRedundantWrites ==
    (booted /\ ~in_recovery)
      => \A in \in InputsOf(program_state) :
           \A a \in {BeforeOutput(St, in)} :
             (~a.in_recovery /\ a.motor_speed = motor_speed)
               => ~WritesMotor(a)

\* the iteration with every check_* call finding the snapshot snap
OneSnapshot(in, snap) == [in EXCEPT !.s1 = snap, !.s2 = snap]

\* C32: whatever the sensor lines do between the two reads of an iteration,
\* the iteration ends as it would with all its reads taken from one
\* snapshot of the lines: the one at the first read or the one at the
\* second.
C32_OneSnapshotDecides ==
    (booted /\ ~in_recovery)
      => \A in \in RaceInputsTable[program_state] :
           Iterate(St, in) \in {Iterate(St, OneSnapshot(in, in.s1)),
                                Iterate(St, OneSnapshot(in, in.s2))}

\* the microseconds gone by since the instant previousMillis was taken at
SinceReference(s) == s.previousMillis.age * 1000

\* C33: an iteration of the ACCEL case with the speed below MAX_SPEED and no
\* sensor asserted adds exactly 0.25 to the speed when ACCEL_TICK_TIME
\* microseconds have gone by since the reference instant (the entry into
\* Accelerating or the previous increment), and leaves the speed as it is
\* when less has gone by; the speed does not pass MAX_SPEED.
C33_TickEveryAccelTickTime ==
    (booted /\ ~in_recovery)
      => \A in \in InputsOf(program_state) :
           \A a \in {Menu(Elapse(St, in.dt), in.cmd)} :
             \A x \in {Iterate(St, in)} :
               (/\ a.program_state = STATE_ACCEL
                /\ a.motor_speed < MAX_SPEED * QUARTERS
                /\ in.s1 = {} /\ in.s2 = {})
                 => /\ x.motor_speed =
                         IF SinceReference(a) >= ACCEL_TICK_TIME
                         THEN a.motor_speed + 1
                         ELSE a.motor_speed
                    /\ x.motor_speed <= MAX_SPEED * QUARTERS

\* the station a sensor stands at
SensorStation(pin) ==
    IF pin \in {"L_SLOW", "L_STOP"} THEN 0
    ELSE IF pin \in {"R_SLOW", "R_STOP"} THEN 2
    ELSE 1

\* C34: an iteration of the ACCEL case with the speed below MAX_SPEED, or of
\* the RUNNING case with the run timer not yet expired, in which the one
\* asserted sensor stands at current_station, leaves program_state and
\* current_station as they are.
C34_OwnStationDisregarded ==
    (booted /\ ~in_recovery)
      => \A in \in InputsOf(program_state) :
           \A a \in {Menu(Elapse(St, in.dt), in.cmd)} :
             \A x \in {Iterate(St, in)} :
               (/\ \/ /\ a.program_state = STATE_ACCEL
                      /\ a.motor_speed < MAX_SPEED * QUARTERS
                   \/ /\ a.program_state = STATE_RUNNING
                      /\ ~RunTimedOut(a)
                /\ in.s1 = in.s2
                /\ \E pin \in Pins :
                     in.s1 = {pin} /\ SensorStation(pin) = a.current_station)
                 => /\ x.program_state = a.program_state
                    /\ x.current_station = a.current_station

\* the sensors a train stopped at a station stands at: the stop sensor of a
\* terminus, a slow sensor of the middle station
StoppingSensors(station) ==
    IF station = 0 THEN {"L_STOP"}
    ELSE IF station = 2 THEN {"R_STOP"}
    ELSE {"C_L_SLOW", "C_R_SLOW"}

\* C35: a train asleep at a station, standing at the sensor that stopped it
\* there, is started without the wait for a stop sensor: the iteration of the
\* STARTUP case that follows the wake-up ends in Accelerating.
C35_WakeUpUnattended ==
    (booted /\ program_state = STATE_SLEEPING /\ current_station \in Stations)
      => \A wake \in InputsOf(STATE_SLEEPING) :
           \A a \in {Iterate(St, wake)} :
             (wake.cmd = "none" /\ a.program_state = STATE_STARTUP)
               => \A in \in InputsOf(STATE_STARTUP) :
                    (/\ in.cmd = "none"
                     /\ \E pin \in StoppingSensors(a.current_station) :
                          in.s1 = {pin})
                      => \A x \in {Iterate(a, in)} :
                           x.program_state = STATE_ACCEL /\ ~x.in_recovery

====
